---------------------------- MODULE Spec2Model ----------------------------
(***************************************************************************)
(* A model of vectorlitedb: the public VectorLiteDB of                     *)
(* src/vectorlitedb/db.py (one JSON file, read-only detection) and the     *)
(* layered variant api/db.py -> storage/persistence.py (VectorStore) ->    *)
(* storage/file_format.py (FileFormat, binary layout) with                 *)
(* core/index/flat.py (FlatIndex) and core/distances.py.                   *)
(*                                                                         *)
(* One database path and one live instance are modelled (SpecTwo sets a    *)
(* second one aside in other).  impl selects which of the two              *)
(* implementations the behaviour runs.  A Python dict is                   *)
(* a sequence of [k, v] items in insertion order.  Vector components are   *)
(* small naturals, for which float64, float32 and the distance arithmetic  *)
(* are exact; distances are kept as exact keys (DistLE compares them).     *)
(*                                                                         *)
(* Spec runs the storage operations (open, insert, delete, get, close)     *)
(* against the file; SpecSearch applies search to every small database.    *)
(***************************************************************************)
EXTENDS Integers, Sequences, FiniteSets, TLC

VARIABLES
    impl,             \* "db": vectorlitedb/db.py, "api": api/db.py + storage
    file,             \* the content of the file at db_path
    writable,         \* os.access(db_path, os.W_OK)
    opened,           \* an instance has been constructed and is in use
    dimension,        \* self.dimension / store.dimension
    distance_metric,  \* self.distance_metric / store.distance_type
    vectors,          \* self.vectors / store.vectors (dict)
    metadata,         \* self.metadata / store.metadata (dict)
    read_only,        \* self._read_only (db.py only)
    id_mapping,       \* store.id_mapping (dict, api only)
    next_pos,         \* store.next_pos (api only)
    last,             \* the last call: its name, arguments' traits, outcome
    snapshot,         \* the records held when close() last returned
    request,          \* SpecSearch: the search call the client makes
    other             \* SpecTwo: a second instance on the path, set aside

vars == <<impl, file, writable, opened, dimension, distance_metric, vectors,
          metadata, read_only, id_mapping, next_pos, last, snapshot, request,
          other>>

-----------------------------------------------------------------------------
(* Bounds of the model. *)

MaxDim == 1      \* Spec: a database is created with a dimension in 0..MaxDim
MaxRecords == 2  \* SpecSearch: a searched database holds up to MaxRecords records
MaxTopK == 3     \* SpecSearch: top_k ranges over -1..MaxTopK

Ids == {"a", "b"}
Metrics == {"l2", "cosine", "dot"}
Impls == {"db", "api"}

-----------------------------------------------------------------------------
(* Python dicts: insertion-ordered sequences of items [k |-> key, v |-> value]. *)

Keys(d) == [i \in 1..Len(d) |-> d[i].k]

KeySet(d) == {d[i].k : i \in 1..Len(d)}

Has(d, key) == \E i \in 1..Len(d) : d[i].k = key

Get(d, key) == d[CHOOSE i \in 1..Len(d) : d[i].k = key].v

\* d[key] = val: a present key keeps its place, a new key goes last.
Put(d, key, val) ==
    IF Has(d, key)
    THEN [i \in 1..Len(d) |-> IF d[i].k = key THEN [k |-> key, v |-> val] ELSE d[i]]
    ELSE Append(d, [k |-> key, v |-> val])

\* del d[key]: the other items keep their order.
Del(d, key) == SelectSeq(d, LAMBDA it : it.k # key)

-----------------------------------------------------------------------------
(* Values. *)

RECURSIVE SeqsOfLen(_, _)
SeqsOfLen(S, n) ==
    IF n = 0 THEN {<<>>}
    ELSE {Append(s, x) : s \in SeqsOfLen(S, n - 1), x \in S}

Components == {0, 1}

VectorsOfLen(n) == SeqsOfLen(Components, n)

\* The vectors passed to insert in Spec: for each length up to one more than
\* the largest dimension, the two vectors 0,1,0,... and 1,0,1,...
InsertVectors ==
    {[i \in 1..n |-> (c + i - 1) % 2] : n \in 0..(MaxDim + 1), c \in Components}

\* A metadata argument: None, or a dict given by its items.  The value
\* "object" stands for a Python value json.dumps rejects (a set, an object).
None == [isNone |-> TRUE, items |-> <<>>]

Dict(its) == [isNone |-> FALSE, items |-> its]

EmptyDict == Dict(<<>>)

CatA == Dict(<<[k |-> "category", v |-> "A"]>>)

CatObject == Dict(<<[k |-> "category", v |-> "object"]>>)

Metadatas == {None, EmptyDict, CatA, CatObject}

\* bool(meta): None and the empty dict are falsy.
Truthy(meta) == ~meta.isNone /\ meta.items # <<>>

\* json.dumps raises TypeError on a dict holding a non-JSON value.
Serializable(meta) == \A i \in 1..Len(meta.items) : meta.items[i].v # "object"

-----------------------------------------------------------------------------
(* The file at db_path.  kind: "missing" (no file), "empty" (zero bytes),   *)
(* "json" (written by db.py) or "bin" (written by FileFormat).  sections    *)
(* counts the sections that were written completely before the writer       *)
(* returned or raised: json has 2 (header, data), bin has 5 (header, id     *)
(* index, metadata index, vector payload, metadata payload).                *)

NoFile ==
    [kind |-> "missing", magic |-> "", version |-> 0, metric |-> "", code |-> 0,
     dimension |-> 0, count |-> 0, sections |-> 0, vectors |-> <<>>,
     metadata |-> <<>>, id_mapping |-> <<>>, meta_index |-> <<>>,
     blocks |-> <<>>, blobs |-> <<>>]

EmptyFile == [NoFile EXCEPT !.kind = "empty"]

\* os.path.exists(db_path) and os.path.getsize(db_path) > 0
ExistsNonEmpty(f) == f.kind \in {"json", "bin"}

\* open(db_path, 'wb') raises PermissionError on an existing file that is
\* not writable; a missing file is created.
CanOpenForWrite(f, w) == f.kind = "missing" \/ w

-----------------------------------------------------------------------------
(* json.dumps / json.loads as db.py uses them.  A JSON object is a sequence *)
(* of <<name, value>> members in document order; Python's json keeps the    *)
(* order of a dict both ways.  Numbers are written with repr and read back  *)
(* to the same value.                                                       *)

JsonNull == [t |-> "null", members |-> <<>>]

\* (variant: a falsy dict is written as null)
JsonDumpsMeta_falsy_null(meta) ==
    IF ~Truthy(meta) THEN JsonNull
    ELSE [t |-> "object",
          members |-> [i \in 1..Len(meta.items) |->
                          <<meta.items[i].k, meta.items[i].v>>]]

JsonDumpsMeta(meta) ==
    IF meta.isNone THEN JsonNull
    ELSE [t |-> "object",
          members |-> [i \in 1..Len(meta.items) |->
                          <<meta.items[i].k, meta.items[i].v>>]]

JsonLoadsMeta(j) ==
    IF j.t = "null" THEN None
    ELSE Dict([i \in 1..Len(j.members) |->
                  [k |-> j.members[i][1], v |-> j.members[i][2]]])

JsonDumpsVector(v) == [t |-> "array", elems |-> v]

JsonLoadsVector(a) == a.elems

\* A dict id -> value as a JSON object, each value encoded in its turn.
JsonDumpsVectors(d) == [i \in 1..Len(d) |-> <<d[i].k, JsonDumpsVector(d[i].v)>>]

JsonLoadsVectors(members) ==
    [i \in 1..Len(members) |->
        [k |-> members[i][1], v |-> JsonLoadsVector(members[i][2])]]

JsonDumpsMetas(d) == [i \in 1..Len(d) |-> <<d[i].k, JsonDumpsMeta(d[i].v)>>]

JsonLoadsMetas(members) ==
    [i \in 1..Len(members) |->
        [k |-> members[i][1], v |-> JsonLoadsMeta(members[i][2])]]

\* A dict id -> int (the id index, the metadata index)
JsonDumpsInts(d) == [i \in 1..Len(d) |-> <<d[i].k, d[i].v>>]

JsonLoadsInts(members) ==
    [i \in 1..Len(members) |-> [k |-> members[i][1], v |-> members[i][2]]]

AllSerializable(metas) == \A i \in 1..Len(metas) : Serializable(metas[i].v)

-----------------------------------------------------------------------------
(* db.py: VectorLiteDB._save and VectorLiteDB._load. *)

\* (variant: a save that keeps the records of the file that the instance
\* does not hold)
DbSave_merging(dim, metric, vecs, metas, f, w) ==
    LET had == f.kind = "json" /\ f.sections = 2
        vs == vecs \o (IF had
                       THEN SelectSeq(JsonLoadsVectors(f.vectors),
                                      LAMBDA it : ~Has(vecs, it.k))
                       ELSE <<>>)
        ms == metas \o (IF had
                        THEN SelectSeq(JsonLoadsMetas(f.metadata),
                                       LAMBDA it : ~Has(metas, it.k))
                        ELSE <<>>)
    IN  IF ~CanOpenForWrite(f, w) THEN [err |-> "PermissionError", file |-> f]
        ELSE [err |-> "none",
              file |-> [NoFile EXCEPT
                  !.kind = "json", !.magic = "VLDB", !.version = 1,
                  !.dimension = dim, !.metric = metric, !.count = Len(vs),
                  !.sections = 2,
                  !.vectors = JsonDumpsVectors(vs),
                  !.metadata = JsonDumpsMetas(ms)]]

\* _save: the file is truncated on open; the header goes out first; the
\* data document is built by one json.dumps call, so a TypeError there
\* leaves the header alone in the file.
DbSave(dim, metric, vecs, metas, f, w) ==
    IF ~CanOpenForWrite(f, w) THEN [err |-> "PermissionError", file |-> f]
    ELSE LET head == [NoFile EXCEPT !.kind = "json", !.magic = "VLDB",
                         !.version = 1, !.dimension = dim, !.metric = metric,
                         !.count = Len(vecs), !.sections = 1]
         IN  IF ~AllSerializable(metas)
             THEN [err |-> "TypeError", file |-> head]
             ELSE [err |-> "none",
                   file |-> [head EXCEPT
                       !.sections = 2,
                       !.vectors = JsonDumpsVectors(vecs),
                       !.metadata = JsonDumpsMetas(metas)]]

\* _load: reads the header, checks the magic only, takes dimension and
\* metric from the header, then parses the rest as the data document.
DbLoad(f) ==
    LET fail(e) == [err |-> e, dimension |-> 0, metric |-> "", vectors |-> <<>>,
                    metadata |-> <<>>]
    IN  IF f.kind # "json" \/ f.sections < 1 THEN fail("JSONDecodeError")
        ELSE IF f.magic # "VLDB" THEN fail("ValueError")
        ELSE IF f.sections < 2 THEN fail("JSONDecodeError")
        ELSE [err |-> "none", dimension |-> f.dimension, metric |-> f.metric,
              vectors |-> JsonLoadsVectors(f.vectors),
              metadata |-> JsonLoadsMetas(f.metadata)]

-----------------------------------------------------------------------------
(* utils/serialization.py. *)

VERSION == 1

\* DISTANCE_TYPES
DistanceCode(name) ==
    CASE name = "l2" -> 0
      [] name = "cosine" -> 1
      [] name = "dot" -> 2
      [] OTHER -> 0          \* DISTANCE_TYPES.get(distance_type, 0)

DistanceName(code) ==
    CASE code = 0 -> "l2"
      [] code = 1 -> "cosine"
      [] code = 2 -> "dot"
      [] OTHER -> "l2"       \* next(..., 'l2')

\* struct.pack('f', x): the float32 nearest to x.  Integers up to 2^24 are
\* float32 values; between 2^24 and 2^25 the float32 values are the even
\* integers (ties go to the even mantissa).
Float32(x) ==
    IF x <= 2^24 THEN x
    ELSE LET lo == 2 * (x \div 2)
         IN  IF x = lo THEN x
             ELSE IF (lo \div 2) % 2 = 0 THEN lo ELSE lo + 2

serialize_vector(v) == [i \in 1..Len(v) |-> Float32(v[i])]

deserialize_vector(block) == block

\* serialize_metadata: json.dumps(metadata).encode(); b'' for None.
serialize_metadata(meta) == JsonDumpsMeta(meta)

\* deserialize_metadata: None for b'', else json.loads.
deserialize_metadata(blob) == JsonLoadsMeta(blob)

\* len(meta_data): the modelled member '"category": "A"' takes 15 bytes
\* between the two braces.
BlobLen(meta) == 2 + 15 * Len(meta.items)

\* struct.pack(HEADER_FORMAT, ...) takes dimension and count as unsigned.
HeaderPackable(dim) == dim >= 0

\* deserialize_header: "none", or the ValueError of a wrong magic or version.
HeaderError(f) ==
    IF f.magic # "VLDB" THEN "ValueError"
    ELSE IF f.version # VERSION THEN "ValueError"
    ELSE "none"

-----------------------------------------------------------------------------
(* storage/file_format.py: FileFormat. *)

\* create_new_file: header with count 0, empty id index, empty metadata
\* index.  The file is opened (created or truncated) before the header is
\* packed.
create_new_file(dim, metric, f, w) ==
    IF ~CanOpenForWrite(f, w) THEN [err |-> "PermissionError", file |-> f]
    ELSE IF ~HeaderPackable(dim) THEN [err |-> "struct.error", file |-> EmptyFile]
    ELSE [err |-> "none",
          file |-> [NoFile EXCEPT !.kind = "bin", !.magic = "VLDB",
                       !.version = VERSION, !.code = DistanceCode(metric),
                       !.dimension = dim, !.count = 0, !.sections = 5]]

\* read_header
read_header(f) ==
    LET fail(e) == [err |-> e, dimension |-> 0, metric |-> "", count |-> 0]
    IN  IF ~ExistsNonEmpty(f) THEN fail("FileNotFoundError")
        ELSE IF f.kind # "bin" \/ f.sections < 1 THEN fail("ValueError")
        ELSE IF HeaderError(f) # "none" THEN fail(HeaderError(f))
        ELSE [err |-> "none", dimension |-> f.dimension,
              metric |-> DistanceName(f.code), count |-> f.count]

\* The items of metadata that write_vectors gives a blob: "if meta:".
WithBlob(metas) == SelectSeq(metas, LAMBDA it : Truthy(it.v))

RECURSIVE BlobOffsets(_, _)
\* metadata_positions: each kept id with the running offset current_pos.
BlobOffsets(kept, pos) ==
    IF kept = <<>> THEN <<>>
    ELSE <<[k |-> Head(kept).k, v |-> pos]>>
         \o BlobOffsets(Tail(kept), pos + BlobLen(Head(kept).v) + 4)

\* write_vectors: dimension and metric are read back from the header of the
\* file being replaced (from the first vector and 'cosine' when there is
\* none to read); then the file is rewritten section by section.
write_vectors(idmap, vecs, metas, f, w) ==
    LET old == read_header(f)
        fromVectors == IF vecs = <<>> THEN 0 ELSE Len(vecs[1].v)
        dim == IF old.err = "none" THEN old.dimension ELSE fromVectors
        metric == IF old.err = "none" THEN old.metric ELSE "cosine"
        two == [NoFile EXCEPT !.kind = "bin", !.magic = "VLDB",
                   !.version = VERSION, !.code = DistanceCode(metric),
                   !.dimension = dim, !.count = Len(vecs), !.sections = 2,
                   !.id_mapping = JsonDumpsInts(idmap)]
        kept == WithBlob(metas)
        positions == BlobOffsets(kept, 0)
    IN  IF ~CanOpenForWrite(f, w) THEN [err |-> "PermissionError", file |-> f]
        ELSE IF ~AllSerializable(kept) THEN [err |-> "TypeError", file |-> two]
        ELSE IF \E i \in 1..Len(idmap) : ~Has(vecs, idmap[i].k)
        THEN \* vectors[vector_id] raises at the first id without a vector
             LET bad == CHOOSE i \in 1..Len(idmap) :
                            /\ ~Has(vecs, idmap[i].k)
                            /\ \A j \in 1..(i - 1) : Has(vecs, idmap[j].k)
             IN  [err |-> "KeyError",
                  file |-> [two EXCEPT
                      !.sections = 3,
                      !.meta_index = JsonDumpsInts(positions),
                      !.blocks = [i \in 1..(bad - 1) |->
                                     serialize_vector(Get(vecs, idmap[i].k))]]]
        ELSE [err |-> "none",
              file |-> [two EXCEPT
                  !.sections = 5,
                  !.meta_index = JsonDumpsInts(positions),
                  !.blocks = [i \in 1..Len(idmap) |->
                                 serialize_vector(Get(vecs, idmap[i].k))],
                  !.blobs = [i \in 1..Len(kept) |->
                                 serialize_metadata(kept[i].v)]]]

RECURSIVE ReadBlobs(_, _, _, _)
\* The metadata loop of read_vectors: index entries in file order, an entry
\* whose id is not in the id index is skipped without reading, a missing
\* blob ends the loop.
ReadBlobs(index, blobs, idmap, metas) ==
    IF index = <<>> THEN metas
    ELSE IF ~Has(idmap, Head(index).k)
    THEN ReadBlobs(Tail(index), blobs, idmap, metas)
    ELSE IF blobs = <<>> THEN metas
    ELSE ReadBlobs(Tail(index), Tail(blobs), idmap,
                   Put(metas, Head(index).k, deserialize_metadata(Head(blobs))))

\* read_vectors
read_vectors(f) ==
    LET empty == [err |-> "none", id_mapping |-> <<>>, vectors |-> <<>>,
                  metadata |-> <<>>]
        idmap == JsonLoadsInts(f.id_mapping)
        index == JsonLoadsInts(f.meta_index)
        \* f.read(dimension * 4) is short only when bytes are asked for
        nread == IF f.dimension = 0 \/ Len(f.blocks) >= Len(idmap)
                 THEN Len(idmap) ELSE Len(f.blocks)
        vecs == [i \in 1..nread |->
                    [k |-> idmap[i].k,
                     v |-> IF i <= Len(f.blocks)
                           THEN deserialize_vector(f.blocks[i]) ELSE <<>>]]
        nones == [i \in 1..Len(idmap) |-> [k |-> idmap[i].k, v |-> None]]
        blobs == IF nread < Len(idmap) THEN <<>> ELSE f.blobs
    IN  IF ~ExistsNonEmpty(f) THEN empty
        ELSE IF f.kind # "bin" \/ f.sections < 1 THEN empty
        ELSE IF HeaderError(f) # "none"
        THEN [empty EXCEPT !.err = HeaderError(f)]
        ELSE IF f.count = 0 THEN empty
        ELSE IF f.sections < 3 THEN empty
        ELSE [err |-> "none", id_mapping |-> idmap, vectors |-> vecs,
              metadata |-> ReadBlobs(index, blobs, idmap, nones)]

-----------------------------------------------------------------------------
(* utils/validation.py (used by VectorStore and FlatIndex). *)

\* (variant: no length check)
validate_vector_any(v, dim) == "none"

\* validate_vector(vector, dimension): "none" or the ValueError.
validate_vector(v, dim) ==
    IF Len(v) # dim THEN "ValueError: dimension mismatch" ELSE "none"

\* validate_id
validate_id(id) == IF id = "" THEN "ValueError: ID cannot be empty" ELSE "none"

\* validate_metadata: None, or a copy of the dict.
validate_metadata(meta) == meta

-----------------------------------------------------------------------------
(* The record of the last call. *)

Call(op, id, err, how, out) ==
    [op |-> op, id |-> id, err |-> err, how |-> how, out |-> out]

NoSnapshot == [valid |-> FALSE, vectors |-> <<>>, metadata |-> <<>>]

\* No second instance: the attributes as they are before a constructor runs.
NoInstance ==
    [opened |-> FALSE, dimension |-> 0, distance_metric |-> "cosine",
     vectors |-> <<>>, metadata |-> <<>>, read_only |-> FALSE,
     id_mapping |-> <<>>, next_pos |-> 0]

NoRequest == [pending |-> FALSE, query |-> <<>>, top_k |-> 0, filter |-> "none"]

\* A dimension argument: absent (None), an int, or a value of another type.
NoDimension == [kind |-> "none", value |-> 0]

IntDimension(n) == [kind |-> "int", value |-> n]

StrDimension == [kind |-> "str", value |-> 0]

\* The (dimension, distance_metric) arguments of the constructor: every
\* valid pair, and each kind of invalid argument.
OpenArgs ==
    {<<IntDimension(n), m>> : n \in 0..MaxDim, m \in Metrics}
    \cup {<<NoDimension, "cosine">>, <<StrDimension, "cosine">>,
          <<IntDimension(-1), "cosine">>, <<IntDimension(0), "manhattan">>,
          <<NoDimension, "manhattan">>}

instance == <<opened, dimension, distance_metric, vectors, metadata, read_only,
              id_mapping, next_pos>>

Init ==
    /\ impl \in Impls
    /\ file \in {NoFile, EmptyFile}
    /\ writable = TRUE
    /\ opened = FALSE
    /\ dimension = 0
    /\ distance_metric = "cosine"
    /\ vectors = <<>>
    /\ metadata = <<>>
    /\ read_only = FALSE
    /\ id_mapping = <<>>
    /\ next_pos = 0
    /\ last = Call("none", "", "none", "", <<>>)
    /\ snapshot = NoSnapshot
    /\ other = NoInstance
    /\ request = NoRequest

-----------------------------------------------------------------------------
(* db.py: VectorLiteDB. *)

\* (variant: a load keeps the metric of the caller)
DbInit_keeps_argument(dim, metric, f, w) ==
    LET fail(e, f2) == [err |-> e, file |-> f2, how |-> "", dimension |-> 0,
                        metric |-> "", vectors |-> <<>>, metadata |-> <<>>,
                        read_only |-> FALSE]
    IN  IF metric \notin Metrics THEN fail("ValueError: invalid metric", f)
        ELSE IF ExistsNonEmpty(f)
        THEN LET l == DbLoad(f)
             IN  IF l.err # "none" THEN fail(l.err, f)
                 ELSE [err |-> "none", file |-> f, how |-> "loaded",
                       dimension |-> l.dimension, metric |-> metric,
                       vectors |-> l.vectors, metadata |-> l.metadata,
                       read_only |-> ~w]
        ELSE IF dim.kind = "none" THEN fail("ValueError: dimension required", f)
        ELSE IF dim.kind # "int" THEN fail("TypeError", f)
        ELSE IF dim.value < 0 THEN fail("ValueError: negative dimension", f)
        ELSE LET sv == DbSave(dim.value, metric, <<>>, <<>>, f, w)
             IN  IF sv.err # "none" THEN fail(sv.err, sv.file)
                 ELSE [err |-> "none", file |-> sv.file, how |-> "created",
                       dimension |-> dim.value, metric |-> metric,
                       vectors |-> <<>>, metadata |-> <<>>, read_only |-> FALSE]

\* __init__: the outcome of the constructor as a record.
DbInit(dim, metric, f, w) ==
    LET fail(e, f2) == [err |-> e, file |-> f2, how |-> "", dimension |-> 0,
                        metric |-> "", vectors |-> <<>>, metadata |-> <<>>,
                        read_only |-> FALSE]
    IN  IF metric \notin Metrics THEN fail("ValueError: invalid metric", f)
        ELSE IF ExistsNonEmpty(f)
        THEN LET l == DbLoad(f)
             IN  IF l.err # "none" THEN fail(l.err, f)
                 ELSE [err |-> "none", file |-> f, how |-> "loaded",
                       dimension |-> l.dimension, metric |-> l.metric,
                       vectors |-> l.vectors, metadata |-> l.metadata,
                       read_only |-> ~w]
        ELSE IF dim.kind = "none" THEN fail("ValueError: dimension required", f)
        ELSE IF dim.kind # "int" THEN fail("TypeError", f)
        ELSE IF dim.value < 0 THEN fail("ValueError: negative dimension", f)
        ELSE LET sv == DbSave(dim.value, metric, <<>>, <<>>, f, w)
             IN  IF sv.err # "none" THEN fail(sv.err, sv.file)
                 ELSE [err |-> "none", file |-> sv.file, how |-> "created",
                       dimension |-> dim.value, metric |-> metric,
                       vectors |-> <<>>, metadata |-> <<>>, read_only |-> FALSE]

DbOpen(dim, metric) ==
    LET r == DbInit(dim, metric, file, writable)
    IN  /\ impl = "db"
        /\ file' = r.file
        /\ last' = Call("open", "", r.err, r.how,
                        IF r.how = "created"
                        THEN <<[dimension |-> dim, metric |-> metric]>>
                        ELSE <<>>)
        /\ IF r.err = "none"
           THEN /\ opened' = TRUE
                /\ dimension' = r.dimension
                /\ distance_metric' = r.metric
                /\ vectors' = r.vectors
                /\ metadata' = r.metadata
                /\ read_only' = r.read_only
                /\ UNCHANGED <<id_mapping, next_pos>>
           ELSE UNCHANGED instance
        /\ UNCHANGED <<impl, other, request, writable, snapshot>>

\* (variant: insert without the save)
DbInsertResult_unsaved(id, v, meta) ==
    LET same(e) == [err |-> e, vectors |-> vectors, metadata |-> metadata,
                    file |-> file, stored |-> <<>>]
    IN  IF read_only THEN same("PermissionError")
        ELSE IF Has(vectors, id) THEN same("ValueError: ID already exists")
        ELSE IF Len(v) # dimension THEN same("ValueError: dimension mismatch")
        ELSE [err |-> "none", vectors |-> Put(vectors, id, v),
              metadata |-> Put(metadata, id, meta), file |-> file,
              stored |-> <<[vector |-> v, metadata |-> meta]>>]

\* insert: the outcome as a record; stored is the (vector, metadata) pair
\* the call put in memory, if it put one.
DbInsertResult(id, v, meta) ==
    LET same(e) == [err |-> e, vectors |-> vectors, metadata |-> metadata,
                    file |-> file, stored |-> <<>>]
    IN  IF read_only THEN same("PermissionError")
        ELSE IF Has(vectors, id) THEN same("ValueError: ID already exists")
        ELSE IF Len(v) # dimension THEN same("ValueError: dimension mismatch")
        ELSE LET vs == Put(vectors, id, v)
                 ms == Put(metadata, id, meta)
                 sv == DbSave(dimension, distance_metric, vs, ms, file, writable)
             IN  [err |-> sv.err, vectors |-> vs, metadata |-> ms, file |-> sv.file,
                  stored |-> <<[vector |-> v, metadata |-> meta]>>]

DbInsert(id, v, meta) ==
    LET r == DbInsertResult(id, v, meta)
    IN  /\ impl = "db" /\ opened
        /\ vectors' = r.vectors
        /\ metadata' = r.metadata
        /\ file' = r.file
        /\ last' = Call("insert", id, r.err,
                        IF Len(v) = dimension THEN "len ok" ELSE "len wrong",
                        r.stored)
        /\ snapshot' = NoSnapshot
        /\ UNCHANGED <<impl, other, request, writable, opened, dimension, distance_metric,
                       read_only, id_mapping, next_pos>>

\* (variant: delete of an absent id returns silently)
DbDeleteResult_silent(id) ==
    LET same(e) == [err |-> e, vectors |-> vectors, metadata |-> metadata,
                    file |-> file]
    IN  IF read_only THEN same("PermissionError")
        ELSE IF ~Has(vectors, id) THEN same("none")
        ELSE LET vs == Del(vectors, id)
                 ms == Del(metadata, id)
                 sv == DbSave(dimension, distance_metric, vs, ms, file, writable)
             IN  [err |-> sv.err, vectors |-> vs, metadata |-> ms, file |-> sv.file]

\* delete: the outcome as a record.
DbDeleteResult(id) ==
    LET same(e) == [err |-> e, vectors |-> vectors, metadata |-> metadata,
                    file |-> file]
    IN  IF read_only THEN same("PermissionError")
        ELSE IF ~Has(vectors, id) THEN same("KeyError: ID not found")
        ELSE LET vs == Del(vectors, id)
                 ms == Del(metadata, id)
                 sv == DbSave(dimension, distance_metric, vs, ms, file, writable)
             IN  [err |-> sv.err, vectors |-> vs, metadata |-> ms, file |-> sv.file]

DbDelete(id) ==
    LET r == DbDeleteResult(id)
    IN  /\ impl = "db" /\ opened
        /\ vectors' = r.vectors
        /\ metadata' = r.metadata
        /\ file' = r.file
        /\ last' = Call("delete", id, r.err, "", <<>>)
        /\ snapshot' = NoSnapshot
        /\ UNCHANGED <<impl, other, request, writable, opened, dimension, distance_metric,
                       read_only, id_mapping, next_pos>>

\* get: (vector, metadata), or the KeyError.
GetResult(vecs, metas, id) ==
    IF ~Has(vecs, id) \/ ~Has(metas, id)
    THEN [err |-> "KeyError: ID not found", out |-> <<>>]
    ELSE [err |-> "none",
          out |-> <<[vector |-> Get(vecs, id), metadata |-> Get(metas, id)]>>]

DbGet(id) ==
    LET r == GetResult(vectors, metadata, id)
    IN  /\ impl = "db" /\ opened
        /\ last' = Call("get", id, r.err, "", r.out)
        /\ UNCHANGED <<impl, other, request, file, writable, instance, snapshot>>

\* (variant: close saves whatever the mode)
DbCloseResult_saves ==
    DbSave(dimension, distance_metric, vectors, metadata, file, writable)

\* close: a save, unless the instance is read-only.
DbCloseResult ==
    IF read_only THEN [err |-> "none", file |-> file]
    ELSE DbSave(dimension, distance_metric, vectors, metadata, file, writable)

DbClose ==
    LET r == DbCloseResult
    IN  /\ impl = "db" /\ opened
        /\ file' = r.file
        /\ last' = Call("close", "", r.err, "", <<>>)
        /\ snapshot' = IF r.err = "none"
                       THEN [valid |-> TRUE, vectors |-> vectors,
                             metadata |-> metadata]
                       ELSE NoSnapshot
        /\ UNCHANGED <<impl, other, request, writable, instance>>

-----------------------------------------------------------------------------
(* core/distances.py: distance_function_factory raises ValueError on a name *)
(* other than l2, cosine, dot.                                              *)

distance_function_factory(name) ==
    IF name \in Metrics THEN "none" ELSE "ValueError: unsupported distance type"

-----------------------------------------------------------------------------
(* storage/persistence.py: VectorStore, behind api/db.py: VectorLiteDB. *)

\* VectorStore._load_from_file: any exception becomes a RuntimeError.
StoreLoad(f) ==
    LET h == read_header(f)
        r == read_vectors(f)
    IN  IF h.err # "none" \/ r.err # "none"
        THEN [err |-> "RuntimeError", dimension |-> 0, metric |-> "",
              id_mapping |-> <<>>, vectors |-> <<>>, metadata |-> <<>>,
              next_pos |-> 0]
        ELSE [err |-> "none", dimension |-> h.dimension, metric |-> h.metric,
              id_mapping |-> r.id_mapping, vectors |-> r.vectors,
              metadata |-> r.metadata, next_pos |-> h.count]

\* api VectorLiteDB.__init__: VectorStore.__init__, then FlatIndex.__init__.
\* The RuntimeError of a failed load is not among the exceptions the
\* constructor catches; the ValueError of a missing dimension is raised
\* again by the handler.
ApiInit(dim, metric, f, w) ==
    LET fail(e, f2) == [err |-> e, file |-> f2, how |-> "", dimension |-> 0,
                        metric |-> "", id_mapping |-> <<>>, vectors |-> <<>>,
                        metadata |-> <<>>, next_pos |-> 0]
    IN  IF ExistsNonEmpty(f)
        THEN LET l == StoreLoad(f)
             IN  IF l.err # "none" THEN fail(l.err, f)
                 ELSE [err |-> "none", file |-> f, how |-> "loaded",
                       dimension |-> l.dimension, metric |-> l.metric,
                       id_mapping |-> l.id_mapping, vectors |-> l.vectors,
                       metadata |-> l.metadata, next_pos |-> l.next_pos]
        ELSE IF dim.kind = "none" THEN fail("ValueError: dimension required", f)
        ELSE LET c == create_new_file(IF dim.kind = "int" THEN dim.value ELSE -1,
                                      metric, f, w)
             IN  IF c.err # "none" THEN fail(c.err, c.file)
                 ELSE IF distance_function_factory(metric) # "none"
                 THEN fail(distance_function_factory(metric), c.file)
                 ELSE [err |-> "none", file |-> c.file, how |-> "created",
                       dimension |-> dim.value, metric |-> metric,
                       id_mapping |-> <<>>, vectors |-> <<>>, metadata |-> <<>>,
                       next_pos |-> 0]

ApiOpen(dim, metric) ==
    LET r == ApiInit(dim, metric, file, writable)
    IN  /\ impl = "api"
        /\ file' = r.file
        /\ last' = Call("open", "", r.err, r.how,
                        IF r.how = "created"
                        THEN <<[dimension |-> dim, metric |-> metric]>>
                        ELSE <<>>)
        /\ IF r.err = "none"
           THEN /\ opened' = TRUE
                /\ dimension' = r.dimension
                /\ distance_metric' = r.metric
                /\ vectors' = r.vectors
                /\ metadata' = r.metadata
                /\ id_mapping' = r.id_mapping
                /\ next_pos' = r.next_pos
                /\ UNCHANGED read_only
           ELSE UNCHANGED instance
        /\ UNCHANGED <<impl, other, request, writable, snapshot>>

\* (variant: insert without the duplicate check)
StoreInsertResult_overwrite(id, v, meta) ==
    LET same(e) == [err |-> e, vectors |-> vectors, metadata |-> metadata,
                    id_mapping |-> id_mapping, next_pos |-> next_pos,
                    file |-> file, stored |-> <<>>]
    IN  IF validate_id(id) # "none" THEN same(validate_id(id))
        ELSE IF validate_vector(v, dimension) # "none"
        THEN same(validate_vector(v, dimension))
        ELSE LET vs == Put(vectors, id, v)
                 ms == Put(metadata, id, validate_metadata(meta))
                 im == Put(id_mapping, id, next_pos)
                 sv == write_vectors(im, vs, ms, file, writable)
             IN  [err |-> sv.err, vectors |-> vs, metadata |-> ms,
                  id_mapping |-> im, next_pos |-> next_pos + 1, file |-> sv.file,
                  stored |-> <<[vector |-> v, metadata |-> validate_metadata(meta)]>>]

\* VectorStore.insert: the outcome as a record.
StoreInsertResult(id, v, meta) ==
    LET same(e) == [err |-> e, vectors |-> vectors, metadata |-> metadata,
                    id_mapping |-> id_mapping, next_pos |-> next_pos,
                    file |-> file, stored |-> <<>>]
    IN  IF validate_id(id) # "none" THEN same(validate_id(id))
        ELSE IF validate_vector(v, dimension) # "none"
        THEN same(validate_vector(v, dimension))
        ELSE IF Has(vectors, id) THEN same("ValueError: ID already exists")
        ELSE LET vs == Put(vectors, id, v)
                 ms == Put(metadata, id, validate_metadata(meta))
                 im == Put(id_mapping, id, next_pos)
                 sv == write_vectors(im, vs, ms, file, writable)
             IN  [err |-> sv.err, vectors |-> vs, metadata |-> ms,
                  id_mapping |-> im, next_pos |-> next_pos + 1, file |-> sv.file,
                  stored |-> <<[vector |-> v, metadata |-> validate_metadata(meta)]>>]

ApiInsert(id, v, meta) ==
    LET r == StoreInsertResult(id, v, meta)
    IN  /\ impl = "api" /\ opened
        /\ vectors' = r.vectors
        /\ metadata' = r.metadata
        /\ id_mapping' = r.id_mapping
        /\ next_pos' = r.next_pos
        /\ file' = r.file
        /\ last' = Call("insert", id, r.err,
                        IF Len(v) = dimension THEN "len ok" ELSE "len wrong",
                        r.stored)
        /\ snapshot' = NoSnapshot
        /\ UNCHANGED <<impl, other, request, writable, opened, dimension, distance_metric,
                       read_only>>

\* VectorStore.delete: the outcome as a record.  The id index is rebuilt
\* from the keys of vectors, in their order.
StoreDeleteResult(id) ==
    LET same(e) == [err |-> e, vectors |-> vectors, metadata |-> metadata,
                    id_mapping |-> id_mapping, next_pos |-> next_pos,
                    file |-> file]
    IN  IF validate_id(id) # "none" THEN same(validate_id(id))
        ELSE IF ~Has(vectors, id) THEN same("KeyError: ID not found")
        ELSE IF ~Has(metadata, id) \/ ~Has(id_mapping, id)
        THEN \* del self.metadata[id] or del self.id_mapping[id] raises
             [err |-> "KeyError", vectors |-> Del(vectors, id),
              metadata |-> Del(metadata, id), id_mapping |-> id_mapping,
              next_pos |-> next_pos, file |-> file]
        ELSE LET vs == Del(vectors, id)
                 ms == Del(metadata, id)
                 im == [i \in 1..Len(vs) |-> [k |-> vs[i].k, v |-> i - 1]]
                 sv == write_vectors(im, vs, ms, file, writable)
             IN  [err |-> sv.err, vectors |-> vs, metadata |-> ms,
                  id_mapping |-> im, next_pos |-> Len(vs), file |-> sv.file]

ApiDelete(id) ==
    LET r == StoreDeleteResult(id)
    IN  /\ impl = "api" /\ opened
        /\ vectors' = r.vectors
        /\ metadata' = r.metadata
        /\ id_mapping' = r.id_mapping
        /\ next_pos' = r.next_pos
        /\ file' = r.file
        /\ last' = Call("delete", id, r.err, "", <<>>)
        /\ snapshot' = NoSnapshot
        /\ UNCHANGED <<impl, other, request, writable, opened, dimension, distance_metric,
                       read_only>>

\* VectorStore.get
StoreGetResult(id) ==
    IF validate_id(id) # "none" THEN [err |-> validate_id(id), out |-> <<>>]
    ELSE GetResult(vectors, metadata, id)

ApiGet(id) ==
    LET r == StoreGetResult(id)
    IN  /\ impl = "api" /\ opened
        /\ last' = Call("get", id, r.err, "", r.out)
        /\ UNCHANGED <<impl, other, request, file, writable, instance, snapshot>>

\* VectorStore.close: save.
StoreCloseResult == write_vectors(id_mapping, vectors, metadata, file, writable)

ApiClose ==
    LET r == StoreCloseResult
    IN  /\ impl = "api" /\ opened
        /\ file' = r.file
        /\ last' = Call("close", "", r.err, "", <<>>)
        /\ snapshot' = IF r.err = "none"
                       THEN [valid |-> TRUE, vectors |-> vectors,
                             metadata |-> metadata]
                       ELSE NoSnapshot
        /\ UNCHANGED <<impl, other, request, writable, instance>>

-----------------------------------------------------------------------------
(* Distances.  A distance is kept exact, as a key [num, den] that stands    *)
(* for  sqrt(num)            under l2     (den = 1),                        *)
(*      1 - num / sqrt(den)  under cosine (zero norm: num = 0, den = 1),    *)
(*      num                  under dot    (den = 1).                        *)

RECURSIVE SumTo(_, _)
SumTo(f, n) == IF n = 0 THEN 0 ELSE SumTo(f, n - 1) + f[n]

\* np.dot of two arrays of one length
Dot(a, b) == SumTo([i \in 1..Len(a) |-> a[i] * b[i]], Len(a))

\* np.linalg.norm, squared
Norm2(a) == Dot(a, a)

DistanceError == [err |-> "ValueError", kind |-> "finite", num |-> 0, den |-> 1]

Distance(num, den) == [err |-> "none", kind |-> "finite", num |-> num, den |-> den]

\* float('inf')
Infinity == [err |-> "none", kind |-> "inf", num |-> 0, den |-> 1]

\* The float nan as a distance
NaNDistance == [err |-> "none", kind |-> "nan", num |-> 0, den |-> 1]

\* float('nan') as a component of a vector: a value apart from the numbers
\* the model computes with.
NaN == 99

\* np.any(np.isnan(v))
HasNaN(v) == \E i \in 1..Len(v) : v[i] = NaN

\* The order of two distances of one metric, as Python compares floats:
\* d1 <= d2 and d1 < d2, both false when either is nan.
SignedSquare(x) == IF x >= 0 THEN x * x ELSE -(x * x)

DistLE(metric, d1, d2) ==
    IF d1.kind = "nan" \/ d2.kind = "nan" THEN FALSE
    ELSE IF d2.kind = "inf" THEN TRUE
    ELSE IF d1.kind = "inf" THEN FALSE
    ELSE IF metric = "cosine"
    THEN SignedSquare(d1.num) * d2.den >= SignedSquare(d2.num) * d1.den
    ELSE d1.num <= d2.num

DistLT(metric, d1, d2) ==
    IF d1.kind = "nan" \/ d2.kind = "nan" THEN FALSE
    ELSE ~DistLE(metric, d2, d1)

\* numpy's v1 - v2 on one-dimensional arrays: equal lengths, or an array of
\* length one broadcast against the other; any other pair raises.
Broadcastable(a, b) == Len(a) = Len(b) \/ Len(a) = 1 \/ Len(b) = 1

BroadcastLen(a, b) == IF Len(a) = Len(b) THEN Len(a)
                      ELSE IF Len(a) = 1 THEN Len(b) ELSE Len(a)

\* (variant: the sum in place of the difference)
BroadcastSub_sum(a, b) ==
    [i \in 1..BroadcastLen(a, b) |->
        (IF Len(a) = Len(b) \/ Len(a) # 1 THEN a[i] ELSE a[1])
        + (IF Len(a) = Len(b) \/ Len(b) # 1 THEN b[i] ELSE b[1])]

BroadcastSub(a, b) ==
    [i \in 1..BroadcastLen(a, b) |->
        (IF Len(a) = Len(b) \/ Len(a) # 1 THEN a[i] ELSE a[1])
        - (IF Len(a) = Len(b) \/ Len(b) # 1 THEN b[i] ELSE b[1])]

\* db.py: VectorLiteDB._calculate_distance
calculate_distance(metric, v1, v2) ==
    IF HasNaN(v1) \/ HasNaN(v2) THEN Infinity
    ELSE IF metric = "l2"
    THEN IF Broadcastable(v1, v2)
         THEN Distance(Norm2(BroadcastSub(v1, v2)), 1)
         ELSE DistanceError
    ELSE IF metric = "cosine"
    THEN IF Norm2(v1) = 0 \/ Norm2(v2) = 0 THEN Distance(0, 1)
         ELSE IF Len(v1) # Len(v2) THEN DistanceError
         ELSE Distance(Dot(v1, v2), Norm2(v1) * Norm2(v2))
    ELSE IF metric = "dot"
    THEN IF Len(v1) # Len(v2) THEN DistanceError
         ELSE Distance(-Dot(v1, v2), 1)
    ELSE [DistanceError EXCEPT !.err = "ValueError: Unknown distance metric"]

\* core/distances.py: validate_vectors
validate_vectors(v1, v2) == IF Len(v1) # Len(v2) THEN "ValueError" ELSE "none"

l2_distance(v1, v2) ==
    IF validate_vectors(v1, v2) # "none" THEN DistanceError
    ELSE IF HasNaN(v1) \/ HasNaN(v2) THEN NaNDistance
    ELSE Distance(Norm2([i \in 1..Len(v1) |-> v1[i] - v2[i]]), 1)

\* cosine_similarity, as the distance 1 - similarity the factory returns
cosine_similarity(v1, v2) ==
    IF validate_vectors(v1, v2) # "none" THEN DistanceError
    \* the norm of a vector with a nan is nan, and nan == 0 is false
    ELSE IF \/ ~HasNaN(v1) /\ Norm2(v1) = 0
            \/ ~HasNaN(v2) /\ Norm2(v2) = 0
    THEN Distance(0, 1)
    ELSE IF HasNaN(v1) \/ HasNaN(v2) THEN NaNDistance
    ELSE Distance(Dot(v1, v2), Norm2(v1) * Norm2(v2))

\* dot_product, as the distance -dot the factory returns
dot_product(v1, v2) ==
    IF validate_vectors(v1, v2) # "none" THEN DistanceError
    ELSE IF HasNaN(v1) \/ HasNaN(v2) THEN NaNDistance
    ELSE Distance(-Dot(v1, v2), 1)

\* the function distance_function_factory returns, applied
distance_fn(metric, v1, v2) ==
    IF metric = "l2" THEN l2_distance(v1, v2)
    ELSE IF metric = "cosine" THEN cosine_similarity(v1, v2)
    ELSE dot_product(v1, v2)

-----------------------------------------------------------------------------
(* Search. *)

\* The predicates passed as filter: "none" is no predicate (None).
Filters == {"none", "category_is_A", "always"}

\* filter(meta) for a metadata dict
FilterAccepts(filter, meta) ==
    IF filter = "always" THEN TRUE
    ELSE Has(meta.items, "category") /\ Get(meta.items, "category") = "A"

\* (variant: a record without metadata passes the predicate)
Kept_none_passes(vecs, metas, filter) ==
    SelectSeq(vecs, LAMBDA it :
        ~(/\ filter # "none"
          /\ Has(metas, it.k)
          /\ ~Get(metas, it.k).isNone
          /\ ~FilterAccepts(filter, Get(metas, it.k))))

\* The records the scan keeps: a record is skipped when a predicate is
\* given, the id has a metadata entry, and the entry is None or rejected.
Kept(vecs, metas, filter) ==
    SelectSeq(vecs, LAMBDA it :
        ~(/\ filter # "none"
          /\ Has(metas, it.k)
          /\ \/ Get(metas, it.k).isNone
             \/ ~FilterAccepts(filter, Get(metas, it.k))))

\* (variant: no sort)
SortByDistance_unsorted(metric, items) == items

\* list.sort(key = distance) on a short list, as CPython's listsort does it
\* with the < of the keys alone: the run the list starts with is taken as
\* sorted (a strictly descending run is reversed), the rest goes in by
\* binary insertion.  Stable; with keys that < orders totally it is a sort.
RECURSIVE RunEnd(_, _, _, _)
RunEnd(metric, items, i, desc) ==
    IF i >= Len(items) THEN Len(items)
    ELSE IF DistLT(metric, items[i + 1].distance, items[i].distance) = desc
    THEN RunEnd(metric, items, i + 1, desc)
    ELSE i

Reverse(seq) == [i \in 1..Len(seq) |-> seq[Len(seq) + 1 - i]]

RECURSIVE BinaryPos(_, _, _, _, _)
\* the number of items of sorted that stay before x
BinaryPos(metric, sorted, x, lo, hi) ==
    IF lo >= hi THEN lo
    ELSE LET p == lo + ((hi - lo) \div 2)
         IN  IF DistLT(metric, x.distance, sorted[p + 1].distance)
             THEN BinaryPos(metric, sorted, x, lo, p)
             ELSE BinaryPos(metric, sorted, x, p + 1, hi)

RECURSIVE BinarySort(_, _, _)
BinarySort(metric, sorted, rest) ==
    IF rest = <<>> THEN sorted
    ELSE LET x == Head(rest)
             pos == BinaryPos(metric, sorted, x, 0, Len(sorted))
         IN  BinarySort(metric,
                        SubSeq(sorted, 1, pos) \o <<x>>
                            \o SubSeq(sorted, pos + 1, Len(sorted)),
                        Tail(rest))

\* (variant: items at equal distance come out in the reverse of their
\* order in the list)
SortByDistance_unstable(metric, items) ==
    Reverse(BinarySort(metric, <<>>, Reverse(items)))

SortByDistance(metric, items) ==
    IF Len(items) < 2 THEN items
    ELSE LET desc == DistLT(metric, items[2].distance, items[1].distance)
             r == RunEnd(metric, items, 2, desc)
             run == SubSeq(items, 1, r)
         IN  BinarySort(metric, IF desc THEN Reverse(run) ELSE run,
                        SubSeq(items, r + 1, Len(items)))

\* (variant: no slice)
Slice_all(seq, k) == seq

\* seq[:k]
Slice(seq, k) ==
    IF k >= 0 THEN SubSeq(seq, 1, IF k < Len(seq) THEN k ELSE Len(seq))
    ELSE SubSeq(seq, 1, IF Len(seq) + k > 0 THEN Len(seq) + k ELSE 0)

\* db.py: VectorLiteDB.search.  A result carries the distance; the similarity
\* score the caller reads is 1 / (1 + distance) under l2 and cosine and
\* -distance under dot, both decreasing in the distance.
DbSearchResult(query, top_k, filter) ==
    IF vectors = <<>> THEN [err |-> "none", out |-> <<>>]
    ELSE
    LET kept == Kept(vectors, metadata, filter)
        distances == [i \in 1..Len(kept) |->
                         [id |-> kept[i].k,
                          distance |-> calculate_distance(distance_metric,
                                                          query, kept[i].v)]]
        top == Slice(SortByDistance(distance_metric, distances), top_k)
        failed == {i \in 1..Len(kept) : distances[i].distance.err # "none"}
    IN  IF failed # {}
        THEN \* the first distance that raises ends the scan
             [err |-> distances[CHOOSE i \in failed :
                                   \A j \in failed : i <= j].distance.err,
              out |-> <<>>]
        ELSE [err |-> "none",
              out |-> [i \in 1..Len(top) |->
                          [id |-> top[i].id, distance |-> top[i].distance,
                           metadata |-> IF Has(metadata, top[i].id)
                                        THEN Get(metadata, top[i].id)
                                        ELSE EmptyDict]]]

DbSearch ==
    LET r == DbSearchResult(request.query, request.top_k, request.filter)
    IN  /\ impl = "db" /\ opened /\ request.pending
        /\ last' = Call("search", "", r.err, "", r.out)
        /\ request' = [request EXCEPT !.pending = FALSE]
        /\ UNCHANGED <<impl, other, file, writable, instance, snapshot>>

\* utils/validation.py: validate_top_k
validate_top_k(top_k, max_value) ==
    IF top_k <= 0 THEN [err |-> "ValueError: top_k must be positive", value |-> 0]
    ELSE [err |-> "none", value |-> IF top_k < max_value THEN top_k ELSE max_value]

\* core/index/flat.py: FlatIndex.search.  validate_vector(query) is called
\* without a dimension and accepts a list of any length.
FlatIndexSearch(query, vecs, top_k, filter_fn, metas) ==
    IF vecs = <<>> THEN [err |-> "none", out |-> <<>>]
    ELSE IF validate_top_k(top_k, Len(vecs)).err # "none"
    THEN [err |-> validate_top_k(top_k, Len(vecs)).err, out |-> <<>>]
    ELSE
    LET kept == Kept(vecs, metas, filter_fn)
        distances == [i \in 1..Len(kept) |->
                         [id |-> kept[i].k,
                          distance |-> distance_fn(distance_metric, query,
                                                   kept[i].v)]]
    IN  IF \E i \in 1..Len(kept) : distances[i].distance.err # "none"
        THEN [err |-> "ValueError", out |-> <<>>]
        ELSE [err |-> "none",
              out |-> Slice(SortByDistance(distance_metric, distances),
                            validate_top_k(top_k, Len(vecs)).value)]

\* api/db.py: VectorLiteDB.search; SearchResult keeps metadata or {}.
ApiSearchResult(query, top_k, filter) ==
    LET r == FlatIndexSearch(query, vectors, top_k, filter, metadata)
    IN  [err |-> r.err,
         out |-> [i \in 1..Len(r.out) |->
                     [id |-> r.out[i].id, distance |-> r.out[i].distance,
                      metadata |-> IF Has(metadata, r.out[i].id)
                                      /\ Truthy(Get(metadata, r.out[i].id))
                                   THEN Get(metadata, r.out[i].id)
                                   ELSE EmptyDict]]]

ApiSearch ==
    LET r == ApiSearchResult(request.query, request.top_k, request.filter)
    IN  /\ impl = "api" /\ opened /\ request.pending
        /\ last' = Call("search", "", r.err, "", r.out)
        /\ request' = [request EXCEPT !.pending = FALSE]
        /\ UNCHANGED <<impl, other, file, writable, instance, snapshot>>

-----------------------------------------------------------------------------
(* The environment: the file's permissions change between two sessions     *)
(* (os.chmod in the tests); the instance of the session before is gone.    *)
(* Only db.py looks at the permissions (its read-only mode); under the      *)
(* layered variant the file is taken to stay writable.                     *)

Chmod ==
    /\ impl = "db"
    /\ file.kind # "missing"
    /\ writable' = ~writable
    /\ opened' = FALSE
    /\ dimension' = 0
    /\ distance_metric' = "cosine"
    /\ vectors' = <<>>
    /\ metadata' = <<>>
    /\ read_only' = FALSE
    /\ id_mapping' = <<>>
    /\ next_pos' = 0
    /\ last' = Call("chmod", "", "none", "", <<>>)
    /\ UNCHANGED <<impl, other, request, file, snapshot>>

Next ==
    \/ \E a \in OpenArgs : DbOpen(a[1], a[2])
    \/ \E id \in Ids, v \in InsertVectors, meta \in Metadatas : DbInsert(id, v, meta)
    \/ \E id \in Ids : DbDelete(id)
    \/ \E id \in Ids : DbGet(id)
    \/ DbClose
    \/ \E a \in OpenArgs : ApiOpen(a[1], a[2])
    \/ \E id \in Ids, v \in InsertVectors, meta \in Metadatas : ApiInsert(id, v, meta)
    \/ \E id \in Ids : ApiDelete(id)
    \/ \E id \in Ids : ApiGet(id)
    \/ ApiClose
    \/ Chmod

Spec == Init /\ [][Next]_vars

-----------------------------------------------------------------------------
(* SpecSearch: an open database holding up to MaxRecords records, and one   *)
(* search call made on it.                                                  *)

SearchIds == <<"a", "b", "c", "d">>

SearchDims == {0, 1, 2}

SearchMetadatas == {None, EmptyDict, CatA}

\* The queries: every vector of every length in SearchDims.
Queries == UNION {VectorsOfLen(n) : n \in SearchDims}

Requests == [pending : {TRUE}, query : Queries, top_k : -1..MaxTopK,
             filter : Filters]

InitSearch ==
    \E d \in SearchDims, n \in 0..MaxRecords :
    \E vs \in [1..n -> VectorsOfLen(d)], ms \in [1..n -> SearchMetadatas] :
        LET vecs == [i \in 1..n |-> [k |-> SearchIds[i], v |-> vs[i]]]
            metas == [i \in 1..n |-> [k |-> SearchIds[i], v |-> ms[i]]]
            idmap == [i \in 1..n |-> [k |-> SearchIds[i], v |-> i - 1]]
        IN  /\ impl \in Impls
            /\ distance_metric \in Metrics
            /\ dimension = d
            /\ vectors = vecs
            /\ metadata = metas
            /\ id_mapping = IF impl = "api" THEN idmap ELSE <<>>
            /\ next_pos = IF impl = "api" THEN n ELSE 0
            /\ file = IF impl = "db"
                      THEN DbSave(d, distance_metric, vecs, metas, NoFile, TRUE).file
                      ELSE write_vectors(idmap, vecs, metas,
                               create_new_file(d, distance_metric, NoFile, TRUE).file,
                               TRUE).file
            /\ writable = TRUE
            /\ opened = TRUE
            /\ read_only = FALSE
            /\ last = Call("none", "", "none", "", <<>>)
            /\ snapshot = NoSnapshot
            /\ other = NoInstance
            /\ request \in Requests

NextSearch ==
    \/ DbSearch
    \/ ApiSearch

SpecSearch == InitSearch /\ [][NextSearch]_vars

-----------------------------------------------------------------------------
(* SpecOpen: a file found at db_path that a session before left there, or   *)
(* that was damaged or written by something else since: opened, then read.  *)

OpenDims == {0, 1}

\* The file a session leaves after saving these records.
SavedFile(i, d, metric, vecs, metas) ==
    IF i = "db"
    THEN DbSave(d, metric, vecs, metas, NoFile, TRUE).file
    ELSE write_vectors([j \in 1..Len(vecs) |-> [k |-> vecs[j].k, v |-> j - 1]],
                       vecs, metas,
                       create_new_file(d, metric, NoFile, TRUE).file, TRUE).file

SavedFiles(i) ==
    UNION {
        {SavedFile(i, d, m,
                   [j \in 1..n |-> [k |-> SearchIds[j], v |-> vs[j]]],
                   [j \in 1..n |-> [k |-> SearchIds[j], v |-> ms[j]]]) :
            vs \in [1..n -> VectorsOfLen(d)], ms \in [1..n -> SearchMetadatas]} :
        d \in OpenDims, n \in 0..MaxRecords, m \in Metrics}

\* A header whose magic is not MAGIC_BYTES / "VLDB"
WrongMagic(f) == [f EXCEPT !.magic = "XXXX"]

\* A header of another format version
OtherVersion(f) == [f EXCEPT !.version = VERSION + 1]

\* A header naming a metric outside DISTANCE_TYPES
UnknownMetric(f) ==
    IF f.kind = "json" THEN [f EXCEPT !.metric = "manhattan"]
    ELSE [f EXCEPT !.code = 7]

\* The file cut inside its section number s + 1, of which the first j whole
\* items (vectors, metadata blobs) are left; everything after is gone.
Truncated(f, s, j) ==
    [f EXCEPT !.sections = s,
              !.vectors = IF s < 2 THEN <<>> ELSE @,
              !.metadata = IF s < 2 THEN <<>> ELSE @,
              !.id_mapping = IF s < 2 THEN <<>> ELSE @,
              !.meta_index = IF s < 3 THEN <<>> ELSE @,
              !.blocks = IF s < 3 THEN <<>>
                         ELSE IF s = 3 THEN SubSeq(@, 1, j) ELSE @,
              !.blobs = IF s < 4 THEN <<>> ELSE SubSeq(@, 1, j)]

\* Every cut of a saved file that removes at least one byte.
Truncations(f) ==
    IF f.kind = "json"
    THEN {[Truncated(f, s, 0) EXCEPT !.id_mapping = <<>>, !.meta_index = <<>>,
                                     !.blocks = <<>>, !.blobs = <<>>] :
             s \in 0..1}
    ELSE {Truncated(f, s, 0) : s \in 0..2}
         \cup {Truncated(f, 3, j) :
                  j \in {k \in 0..Len(f.blocks) :
                            f.dimension > 0 /\ k < Len(f.blocks)}}
         \cup {Truncated(f, 4, j) : j \in {k \in 0..Len(f.blobs) : k < Len(f.blobs)}}

OpenFiles(i) ==
    {NoFile, EmptyFile}
    \cup SavedFiles(i)
    \cup {WrongMagic(f) : f \in SavedFiles(i)}
    \cup {OtherVersion(f) : f \in SavedFiles(i)}
    \cup {UnknownMetric(f) : f \in SavedFiles(i)}
    \cup UNION {Truncations(f) : f \in SavedFiles(i)}

OpenRequests ==
    [pending : {TRUE}, query : UNION {VectorsOfLen(n) : n \in OpenDims},
     top_k : {MaxTopK}, filter : {"none"}]

InitOpen ==
    /\ impl \in Impls
    /\ file \in OpenFiles(impl)
    /\ writable = TRUE
    /\ opened = FALSE
    /\ dimension = 0
    /\ distance_metric = "cosine"
    /\ vectors = <<>>
    /\ metadata = <<>>
    /\ read_only = FALSE
    /\ id_mapping = <<>>
    /\ next_pos = 0
    /\ last = Call("none", "", "none", "", <<>>)
    /\ snapshot = NoSnapshot
    /\ other = NoInstance
    /\ request \in OpenRequests

NextOpen ==
    \/ \E a \in OpenArgs : DbOpen(a[1], a[2])
    \/ \E id \in Ids : DbGet(id)
    \/ DbSearch
    \/ \E a \in OpenArgs : ApiOpen(a[1], a[2])
    \/ \E id \in Ids : ApiGet(id)
    \/ ApiSearch

SpecOpen == InitOpen /\ [][NextOpen]_vars

-----------------------------------------------------------------------------
(* SpecNaN: an open database whose vectors may hold NaN components, and one *)
(* search call made on it, the query too drawn with NaN components.         *)

NaNDims == {1, 2}

NaNVectors(n) == SeqsOfLen(Components \cup {NaN}, n)

NaNRequests ==
    [pending : {TRUE}, query : UNION {NaNVectors(n) : n \in NaNDims},
     top_k : {1, MaxTopK}, filter : {"none"}]

InitNaN ==
    \E d \in NaNDims, n \in 0..MaxRecords :
    \E vs \in [1..n -> NaNVectors(d)] :
        LET vecs == [i \in 1..n |-> [k |-> SearchIds[i], v |-> vs[i]]]
            metas == [i \in 1..n |-> [k |-> SearchIds[i], v |-> None]]
            idmap == [i \in 1..n |-> [k |-> SearchIds[i], v |-> i - 1]]
        IN  /\ impl \in Impls
            /\ distance_metric \in Metrics
            /\ dimension = d
            /\ vectors = vecs
            /\ metadata = metas
            /\ id_mapping = IF impl = "api" THEN idmap ELSE <<>>
            /\ next_pos = IF impl = "api" THEN n ELSE 0
            /\ file = SavedFile(impl, d, distance_metric, vecs, metas)
            /\ writable = TRUE
            /\ opened = TRUE
            /\ read_only = FALSE
            /\ last = Call("none", "", "none", "", <<>>)
            /\ snapshot = NoSnapshot
            /\ other = NoInstance
            /\ request \in {r \in NaNRequests : Len(r.query) = d}

SpecNaN == InitNaN /\ [][NextSearch]_vars

-----------------------------------------------------------------------------
(* SpecIds: the operations that take an identifier, called with the empty   *)
(* string as well, on a database of dimension one.                          *)

IdArguments == Ids \cup {""}

NextIds ==
    \/ DbOpen(IntDimension(1), "cosine")
    \/ \E id \in IdArguments, v \in VectorsOfLen(1), meta \in {None, CatA} :
           DbInsert(id, v, meta)
    \/ \E id \in IdArguments : DbDelete(id)
    \/ \E id \in IdArguments : DbGet(id)
    \/ ApiOpen(IntDimension(1), "cosine")
    \/ \E id \in IdArguments, v \in VectorsOfLen(1), meta \in {None, CatA} :
           ApiInsert(id, v, meta)
    \/ \E id \in IdArguments : ApiDelete(id)
    \/ \E id \in IdArguments : ApiGet(id)

SpecIds == Init /\ [][NextIds]_vars

-----------------------------------------------------------------------------
(* SpecAlias: the caller keeps the list and the dict it passed to insert,   *)
(* or received from get, and writes into them after the call returned.      *)
(* The object held is the one of the last call (last.out).                  *)

\* A dict whose value is itself a mutable object, {"category": {"n": 0}}
CatNested == Dict(<<[k |-> "category", v |-> "{n: 0}"]>>)

\* What the caller writes: vector[0] = 1 - vector[0]; metadata["category"]
\* = "B"; metadata["category"]["n"] = 1.
Mutations == {"vector", "key", "nested"}

\* The caller holds an object the mutation applies to.
Holds(m) ==
    /\ last.op \in {"insert", "get"} /\ last.out # <<>>
    /\ Has(vectors, last.id) /\ Has(metadata, last.id)
    /\ CASE m = "vector" -> Len(last.out[1].vector) >= 1
         [] m = "key" -> ~last.out[1].metadata.isNone
         [] OTHER -> last.out[1].metadata = CatNested

\* The object written into is the stored one: get returns the stored
\* objects; db.py insert stores the arguments themselves; VectorStore.insert
\* stores a new list and a shallow copy of the dict, whose values are still
\* the caller's.
SharedWithStore(m) ==
    \/ last.op = "get"
    \/ impl = "db"
    \/ m = "nested"

MutatedVector(v) == [v EXCEPT ![1] = 1 - @]

MutatedMetadata(m, meta) ==
    Dict(Put(meta.items, "category", IF m = "key" THEN "B" ELSE "{n: 1}"))

CallerMutates(m) ==
    /\ opened /\ Holds(m)
    /\ vectors' = IF SharedWithStore(m) /\ m = "vector"
                  THEN Put(vectors, last.id, MutatedVector(Get(vectors, last.id)))
                  ELSE vectors
    /\ metadata' = IF SharedWithStore(m) /\ m # "vector"
                   THEN Put(metadata, last.id,
                            MutatedMetadata(m, Get(metadata, last.id)))
                   ELSE metadata
    /\ last' = Call("mutate", last.id, "none", m, <<>>)
    /\ snapshot' = NoSnapshot
    /\ UNCHANGED <<impl, other, request, file, writable, opened, dimension,
                   distance_metric, read_only, id_mapping, next_pos>>

AliasMetadatas == {None, CatA, CatNested}

NextAlias ==
    \/ DbOpen(IntDimension(1), "cosine")
    \/ \E id \in Ids, v \in VectorsOfLen(1), meta \in AliasMetadatas :
           DbInsert(id, v, meta)
    \/ \E id \in Ids : DbGet(id)
    \/ DbClose
    \/ ApiOpen(IntDimension(1), "cosine")
    \/ \E id \in Ids, v \in VectorsOfLen(1), meta \in AliasMetadatas :
           ApiInsert(id, v, meta)
    \/ \E id \in Ids : ApiGet(id)
    \/ ApiClose
    \/ \E m \in Mutations : CallerMutates(m)

SpecAlias == Init /\ [][NextAlias]_vars

-----------------------------------------------------------------------------
(* SpecSave: sessions in which the file at the path is removed, emptied or  *)
(* overwritten from outside while an instance is open, the cases the save   *)
(* of FileFormat.write_vectors branches on before it opens the file.        *)

\* The outside changes: the file is removed, emptied, or its first bytes
\* are overwritten.
Replacements == {"missing", "empty", "magic"}

\* What the path holds after the change.
ReplacedFile(how, f) ==
    CASE how = "missing" -> NoFile
      [] how = "empty" -> EmptyFile
      [] OTHER -> WrongMagic(f)

FileReplaced(how) ==
    /\ opened
    /\ how = "magic" => ExistsNonEmpty(file)
    /\ ReplacedFile(how, file) # file
    /\ file' = ReplacedFile(how, file)
    /\ last' = Call("replace", "", "none", how, <<>>)
    /\ snapshot' = NoSnapshot
    /\ UNCHANGED <<impl, other, request, writable, instance>>

NextSave ==
    \/ \E m \in Metrics : DbOpen(IntDimension(1), m)
    \/ \E id \in Ids, v \in VectorsOfLen(1) : DbInsert(id, v, None)
    \/ \E id \in Ids : DbDelete(id)
    \/ DbClose
    \/ \E m \in Metrics : ApiOpen(IntDimension(1), m)
    \/ \E id \in Ids, v \in VectorsOfLen(1) : ApiInsert(id, v, None)
    \/ \E id \in Ids : ApiDelete(id)
    \/ ApiClose
    \/ \E how \in Replacements : FileReplaced(how)

SpecSave == Init /\ [][NextSave]_vars

-----------------------------------------------------------------------------
(* SpecTwo: two instances of one implementation on the same path, as in    *)
(* test_concurrent_file_access.  The calls of the two interleave; each     *)
(* call runs to its end.  The variables of the instance hold the one the   *)
(* caller is using, other holds the one set aside.                         *)

\* The instance in use, as the record other holds.
InUse ==
    [opened |-> opened, dimension |-> dimension,
     distance_metric |-> distance_metric, vectors |-> vectors,
     metadata |-> metadata, read_only |-> read_only,
     id_mapping |-> id_mapping, next_pos |-> next_pos]

\* The caller turns to the other instance (or to a name not yet bound).
Switch ==
    /\ opened
    /\ opened' = other.opened
    /\ dimension' = other.dimension
    /\ distance_metric' = other.distance_metric
    /\ vectors' = other.vectors
    /\ metadata' = other.metadata
    /\ read_only' = other.read_only
    /\ id_mapping' = other.id_mapping
    /\ next_pos' = other.next_pos
    /\ other' = InUse
    /\ last' = Call("switch", "", "none", "", <<>>)
    /\ snapshot' = NoSnapshot
    /\ UNCHANGED <<impl, request, file, writable>>

TwoMetadatas == {None, EmptyDict, CatA}

NextTwo ==
    \/ DbOpen(IntDimension(1), "cosine")
    \/ \E id \in Ids, v \in VectorsOfLen(1), meta \in TwoMetadatas :
           DbInsert(id, v, meta)
    \/ \E id \in Ids : DbDelete(id)
    \/ DbClose
    \/ ApiOpen(IntDimension(1), "cosine")
    \/ \E id \in Ids, v \in VectorsOfLen(1), meta \in TwoMetadatas :
           ApiInsert(id, v, meta)
    \/ \E id \in Ids : ApiDelete(id)
    \/ ApiClose
    \/ Switch

SpecTwo == Init /\ [][NextTwo]_vars

-----------------------------------------------------------------------------
(* Properties. *)

\* The same identifiers, and for each the same outcome of get.
SameRecords(v1, m1, v2, m2) ==
    /\ KeySet(v1) = KeySet(v2)
    /\ \A id \in KeySet(v1) : GetResult(v1, m1, id) = GetResult(v2, m2, id)

\* The part of the instance a record lives in, and the file.
storage == <<vectors, metadata, id_mapping, next_pos, file>>

\* C1: db.py round trip.  After inserts and deletes, a close() that returned
\* and a new open of the same path, the reopened database holds the same
\* identifiers as before the close, and get gives the same vector and the
\* same metadata (None, {} or a non-empty dict) for each of them.
C1_RoundTrip ==
    (impl = "db" /\ last.op = "open" /\ last.err = "none" /\ snapshot.valid)
    => SameRecords(vectors, metadata, snapshot.vectors, snapshot.metadata)

C1_Witness ==
    /\ impl = "db" /\ last.op = "open" /\ last.how = "loaded" /\ snapshot.valid
    /\ Len(vectors) = 2
    /\ {metadata[1].v, metadata[2].v} = {None, EmptyDict}

\* C2: db.py saves on every mutation.  After each successful create-open,
\* insert or delete, with no close, a second instance opened on the path
\* loads the same identifiers, vectors and metadata and the same count.
C2_OnDisk ==
    (/\ impl = "db" /\ opened /\ last.err = "none"
     /\ \/ last.op \in {"insert", "delete"}
        \/ last.op = "open" /\ last.how = "created")
    => LET second == DbInit(NoDimension, "cosine", file, writable)
       IN  /\ second.err = "none"
           /\ SameRecords(second.vectors, second.metadata, vectors, metadata)
           /\ Len(second.vectors) = Len(vectors)
           /\ second.dimension = dimension
           /\ second.metric = distance_metric

C2_Witness ==
    /\ impl = "db" /\ last.op = "delete" /\ last.err = "none"
    /\ Len(vectors) = 1 /\ metadata[1].v = CatA

\* C3: insert with an id that is present fails, whatever the vector (also
\* one of the wrong length) and the metadata, and changes neither the
\* records in memory nor the file.
C3_DuplicateInsert ==
    [][(last'.op = "insert" /\ Has(vectors, last'.id))
       => (last'.err # "none" /\ UNCHANGED storage)]_vars

C3_Witness ==
    /\ last.op = "insert" /\ last.how = "len wrong" /\ Has(vectors, last.id)
    /\ last.err = "ValueError: ID already exists"

\* C4: every stored vector has the length of the database dimension; insert
\* of a vector of another length fails and changes nothing, so that with
\* dimension 0 only the empty vector is stored.
DimensionInvariant ==
    opened => \A i \in 1..Len(vectors) : Len(vectors[i].v) = dimension

C4_Dimension ==
    /\ []DimensionInvariant
    /\ [][(last'.op = "insert" /\ last'.how = "len wrong")
          => (last'.err # "none" /\ UNCHANGED storage)]_vars

C4_Witness ==
    /\ opened /\ dimension = 0 /\ vectors # <<>>
    /\ last.op = "insert" /\ last.how = "len wrong"
    /\ last.err = "ValueError: dimension mismatch"

\* C5: whenever insert or delete raises, at whatever step, the records in
\* memory are those of before the call.
C5_NoPartialMutation ==
    [][(last'.op \in {"insert", "delete"} /\ last'.err # "none")
       => UNCHANGED <<vectors, metadata>>]_vars

-----------------------------------------------------------------------------
(* Properties of search (SpecSearch). *)

\* A record passes when no predicate is given, or its metadata is a dict
\* the predicate accepts.
Passes(id) ==
    \/ request.filter = "none"
    \/ /\ Has(metadata, id)
       /\ ~Get(metadata, id).isNone
       /\ FilterAccepts(request.filter, Get(metadata, id))

PassingIds == {id \in KeySet(vectors) : Passes(id)}

\* The distance of a record of the query's length under the metric, by the
\* metric's definition: squared Euclidean distance, the cosine (a zero
\* vector has cosine 0 with anything), the negated dot product.
MetricDistance(q, v) ==
    IF distance_metric = "l2"
    THEN Distance(SumTo([i \in 1..Len(q) |-> (q[i] - v[i]) * (q[i] - v[i])], Len(q)), 1)
    ELSE IF distance_metric = "dot"
    THEN Distance(-SumTo([i \in 1..Len(q) |-> q[i] * v[i]], Len(q)), 1)
    ELSE IF Norm2(q) = 0 \/ Norm2(v) = 0 THEN Distance(0, 1)
    ELSE Distance(SumTo([i \in 1..Len(q) |-> q[i] * v[i]], Len(q)),
                  Norm2(q) * Norm2(v))

Returned == {last.out[i].id : i \in 1..Len(last.out)}

SearchReturned == ~request.pending /\ last.op = "search" /\ last.err = "none"

\* C6: for every metric, query of the database's dimension, top_k >= 1 and
\* predicate, the results come in non-decreasing distance, each with the
\* metric's distance of its record, and no record that passed the predicate
\* and was left out is strictly nearer than a returned one.
C6_Nearest ==
    (SearchReturned /\ request.top_k >= 1 /\ Len(request.query) = dimension)
    => /\ \A i \in 1..Len(last.out) :
              /\ Has(vectors, last.out[i].id)
              /\ last.out[i].distance =
                     MetricDistance(request.query, Get(vectors, last.out[i].id))
       /\ \A i \in 1..(Len(last.out) - 1) :
              DistLE(distance_metric, last.out[i].distance, last.out[i + 1].distance)
       /\ \A id \in PassingIds \ Returned : \A i \in 1..Len(last.out) :
              ~DistLT(distance_metric,
                      MetricDistance(request.query, Get(vectors, id)),
                      last.out[i].distance)

C6_Witness ==
    /\ SearchReturned /\ request.top_k = 1 /\ Len(request.query) = dimension
    /\ Len(vectors) = 2 /\ PassingIds = {"a", "b"}
    /\ Returned = {"b"}
    /\ DistLT(distance_metric, last.out[1].distance,
              MetricDistance(request.query, Get(vectors, "a")))

Min(a, b) == IF a < b THEN a ELSE b

\* C7: for every positive top_k (and a query of the database's dimension)
\* search returns min(top_k, number of records passing the predicate)
\* results, a top_k above the number of records is no error, and on a
\* database without records the result is the empty list, with no error.
C7_TopK ==
    (~request.pending /\ last.op = "search")
    => /\ (request.top_k >= 1 /\ Len(request.query) = dimension)
          => /\ last.err = "none"
             /\ Len(last.out) = Min(request.top_k, Cardinality(PassingIds))
             /\ Cardinality(Returned) = Len(last.out)
       /\ vectors = <<>> => (last.err = "none" /\ last.out = <<>>)

C7_Witness ==
    /\ SearchReturned /\ request.top_k = MaxTopK /\ Len(vectors) = 2
    /\ request.filter = "category_is_A" /\ Len(last.out) = 1

\* C8: with a predicate, every returned record has metadata that is not
\* None and that the predicate accepts (and the result carries it); a record
\* with metadata None is not returned even by the predicate that accepts
\* everything; without a predicate no record is excluded.
C8_Filter ==
    SearchReturned
    => /\ request.filter # "none"
          => \A i \in 1..Len(last.out) :
                /\ Has(metadata, last.out[i].id)
                /\ ~Get(metadata, last.out[i].id).isNone
                /\ FilterAccepts(request.filter, Get(metadata, last.out[i].id))
                /\ last.out[i].metadata = Get(metadata, last.out[i].id)
       /\ (request.filter = "none" /\ request.top_k >= Len(vectors))
          => Returned = KeySet(vectors)

C8_Witness ==
    /\ SearchReturned /\ request.filter = "always" /\ request.top_k = 2
    /\ Len(vectors) = 2 /\ metadata[1].v = None /\ metadata[2].v = EmptyDict
    /\ Returned = {"b"}

-----------------------------------------------------------------------------
(* Properties of delete and close (Spec). *)

NotFound == "KeyError: ID not found"

\* What delete of a present id leaves: the id is gone, the count is one
\* less, every other id keeps its vector and metadata.
RemovedExactly(id) ==
    /\ GetResult(vectors', metadata', id).err = NotFound
    /\ Len(vectors') = Len(vectors) - 1
    /\ \A rest \in Ids \ {id} :
          GetResult(vectors', metadata', rest) = GetResult(vectors, metadata, rest)

C10_CloseIdempotent ==
    [][/\ last'.op = "close"
          => /\ last'.err = "none"
             /\ UNCHANGED <<vectors, metadata>>
             /\ last.op = "close" => file' = file
       /\ (last'.op = "open" /\ last.op = "close")
          => /\ last'.err = "none"
             /\ SameRecords(vectors', metadata', vectors, metadata)]_vars

-----------------------------------------------------------------------------
(* Properties of open (Spec). *)

\* The file is a database the implementation loads.
Loadable(f) ==
    IF impl = "db" THEN DbLoad(f).err = "none" ELSE StoreLoad(f).err = "none"

\* The header of the file can be read, and what it says.
HeaderReadable(f) == ExistsNonEmpty(f) /\ f.sections >= 1 /\ f.magic = "VLDB"

FileMetric(f) == IF f.kind = "json" THEN f.metric ELSE DistanceName(f.code)

\* C11: an open of a path whose file is a database succeeds whatever
\* dimension and metric the caller gives (none, others than the stored
\* ones, or ones a new database would refuse), and the instance has the
\* dimension and metric of the file.
C11_OpenIgnoresArguments ==
    [][(last'.op = "open" /\ Loadable(file))
       => /\ last'.err = "none"
          /\ opened'
          /\ dimension' = file.dimension
          /\ distance_metric' = FileMetric(file)]_vars

\* C12: the dimension and the metric are those given at creation: a
\* database reports what its file says, a creation stores what the caller
\* gave, and no later insert, delete, close or reopen changes the dimension
\* or the metric of the file.
C12_FixedAtCreation ==
    /\ [](opened /\ HeaderReadable(file)
          => dimension = file.dimension /\ distance_metric = FileMetric(file))
    /\ [][/\ (last'.op = "open" /\ last'.how = "created")
             => /\ last'.err = "none"
                /\ dimension' = last'.out[1].dimension.value
                /\ distance_metric' = last'.out[1].metric
                /\ HeaderReadable(file')
          /\ HeaderReadable(file)
             => /\ HeaderReadable(file')
                /\ file'.dimension = file.dimension
                /\ FileMetric(file') = FileMetric(file)]_vars

C12_Witness ==
    /\ impl = "api" /\ opened /\ last.op = "open" /\ last.how = "loaded"
    /\ distance_metric = "dot" /\ dimension = 1
    /\ vectors = <<>> /\ file.count = 0 /\ next_pos = 0

\* A header of an existing non-empty file that is whole and does not carry
\* the magic marker and the supported version.
Mismatched(f) ==
    /\ ExistsNonEmpty(f)
    /\ f.sections >= 1
    /\ f.magic # "VLDB" \/ f.version # VERSION

\* C13: opening an existing non-empty file whose header has a wrong magic
\* marker, or the right one with another format version, fails with an
\* error whatever the arguments: no open database results, and the file is
\* not replaced.
C13_MismatchFails ==
    [][(last'.op = "open" /\ Mismatched(file))
       => /\ last'.err # "none"
          /\ ~opened'
          /\ file' = file]_vars

\* The file ends before the end of its last section.
Cut(f) ==
    /\ ExistsNonEmpty(f)
    /\ f.sections < (IF f.kind = "json" THEN 2 ELSE 5)

\* The identifiers the file lists: the keys of its "vectors" object, or of
\* its identifier index.
ListedIds(f) ==
    IF f.kind = "json" THEN KeySet(JsonLoadsVectors(f.vectors))
    ELSE KeySet(JsonLoadsInts(f.id_mapping))

\* The identifiers for which the file holds a metadata dict.
WithStoredMetadata(f) ==
    IF f.kind = "json"
    THEN {id \in KeySet(JsonLoadsMetas(f.metadata)) :
             ~Get(JsonLoadsMetas(f.metadata), id).isNone}
    ELSE KeySet(JsonLoadsInts(f.meta_index))

\* C14: a database opened from a file truncated inside any of its sections
\* holds no partial data: of the identifiers the file lists, all or none are
\* retrievable; no identifier is listed in memory without a vector; and no
\* retrievable record whose metadata the file stores has metadata None.
C14_NoPartialData ==
    (opened /\ Cut(file))
    => /\ {id \in ListedIds(file) : Has(vectors, id)} \in {{}, ListedIds(file)}
       /\ \A id \in KeySet(id_mapping) \cup KeySet(metadata) : Has(vectors, id)
       /\ \A id \in WithStoredMetadata(file) :
              Has(vectors, id) => ~Get(metadata, id).isNone

\* C15: a metric name other than l2, cosine, dot is rejected when the
\* database is opened: an open database always has one of the three
\* metrics, and no search fails because of the metric name.
C15_MetricResolvedAtOpen ==
    /\ opened => distance_metric \in Metrics
    /\ last.op = "search" => last.err # "ValueError: Unknown distance metric"

\* The stored records whose vector is the query.
ExactMatches == {id \in KeySet(vectors) : Get(vectors, id) = request.query}

\* A distance key that stands for 0.
IsZero(metric, d) ==
    IF metric = "cosine" THEN d.num > 0 /\ d.num * d.num = d.den
    ELSE d.num = 0

ExactMatchSearched ==
    /\ ~request.pending /\ last.op = "search"
    /\ request.filter = "none" /\ request.top_k >= 1
    /\ ExactMatches # {}

\* C16 as stated: for every metric, a search without predicate, top_k >= 1,
\* whose query equals the vector of a stored record returns a first result
\* at distance zero, and no record with another vector is strictly nearer
\* than the exact match.
C16_ExactMatchAsStated ==
    ExactMatchSearched
    => /\ last.err = "none" /\ last.out # <<>>
       /\ IsZero(distance_metric, last.out[1].distance)
       /\ \A i \in 1..Len(last.out) :
              Get(vectors, last.out[i].id) # request.query
              => ~DistLT(distance_metric, last.out[i].distance,
                         MetricDistance(request.query, request.query))

\* C16: such a search succeeds with a first result that is, under l2, at
\* distance zero; under cosine, at distance zero when the query is not the
\* zero vector and at distance one (as every record) when it is; under dot,
\* at a distance no greater than the exact match's own, which is minus the
\* squared norm of the query, zero for the zero vector only.
C16_ExactMatch ==
    ExactMatchSearched
    => /\ last.err = "none" /\ last.out # <<>>
       /\ distance_metric = "l2" => IsZero("l2", last.out[1].distance)
       /\ (distance_metric = "cosine" /\ Norm2(request.query) > 0)
          => IsZero("cosine", last.out[1].distance)
       /\ (distance_metric = "cosine" /\ Norm2(request.query) = 0)
          => \A i \in 1..Len(last.out) : last.out[i].distance = Distance(0, 1)
       /\ distance_metric = "dot"
          => /\ DistLE("dot", last.out[1].distance,
                       Distance(-Norm2(request.query), 1))
             /\ MetricDistance(request.query, request.query)
                    = Distance(-Norm2(request.query), 1)

C16_Witness ==
    /\ ExactMatchSearched /\ last.err = "none"
    /\ distance_metric = "l2" /\ Len(vectors) = 2
    /\ ExactMatches = {"b"}
    /\ last.out[1].id = "b" /\ IsZero("l2", last.out[1].distance)

\* A search on a database of records, the query of the database's dimension,
\* with a NaN in the query or in a stored vector.
NaNSearched ==
    /\ ~request.pending /\ last.op = "search"
    /\ request.top_k >= 1 /\ Len(request.query) = dimension
    /\ vectors # <<>>
    /\ HasNaN(request.query) \/ \E i \in 1..Len(vectors) : HasNaN(vectors[i].v)

\* C17: when the query or a stored vector contains NaN, search raises no
\* error and returns min(top_k, records) results; a record compared through
\* a NaN has distance +infinity; no result at +infinity comes before one at
\* a finite distance, none at a finite distance is left out for one at
\* +infinity, and no returned distance (hence no similarity) is NaN.
C17_NaNPolicy ==
    NaNSearched
    => /\ last.err = "none"
       /\ Len(last.out) = Min(request.top_k, Len(vectors))
       /\ \A i \in 1..Len(last.out) :
              /\ last.out[i].distance.kind # "nan"
              /\ (HasNaN(request.query) \/ HasNaN(Get(vectors, last.out[i].id)))
                 => last.out[i].distance.kind = "inf"
              /\ \A j \in 1..(i - 1) :
                     ~(/\ last.out[j].distance.kind = "inf"
                       /\ last.out[i].distance.kind = "finite")
       /\ \A id \in KeySet(vectors) \ Returned :
              (\E i \in 1..Len(last.out) : last.out[i].distance.kind = "inf")
              => HasNaN(request.query) \/ HasNaN(Get(vectors, id))

\* C18: a db.py instance opened from an existing file that is not writable
\* is read-only.  Its records are the ones the file holds for as long as it
\* lives, and the file does not change; get returns every record and search
\* raises nothing; insert and delete raise PermissionError and close returns
\* normally, each leaving memory and file as they were.
C18_ReadOnly ==
    /\ [](read_only
          => /\ impl = "db" /\ opened /\ ~writable
             /\ DbLoad(file).err = "none"
             /\ vectors = DbLoad(file).vectors
             /\ metadata = DbLoad(file).metadata
             /\ \A id \in KeySet(vectors) :
                    GetResult(vectors, metadata, id)
                        = [err |-> "none",
                           out |-> <<[vector |-> Get(DbLoad(file).vectors, id),
                                      metadata |-> Get(DbLoad(file).metadata, id)]>>]
             /\ \A q \in VectorsOfLen(dimension), k \in 1..MaxTopK, f \in Filters :
                    /\ DbSearchResult(q, k, f).err = "none"
                    /\ f = "none"
                       => Len(DbSearchResult(q, k, f).out) = Min(k, Len(vectors)))
    /\ [][read_only
          => /\ file' = file
             /\ (read_only' => UNCHANGED <<vectors, metadata>>)
             /\ (last'.op \in {"insert", "delete"})
                => (last'.err = "PermissionError" /\ UNCHANGED <<storage, read_only>>)
             /\ (last'.op = "close")
                => (last'.err = "none" /\ UNCHANGED <<storage, read_only>>)
             /\ (last'.op = "get")
                => /\ last'.err = GetResult(vectors, metadata, last'.id).err
                   /\ UNCHANGED <<storage, read_only>>]_vars

C18_Witness ==
    /\ read_only /\ ~writable /\ Len(vectors) = 1
    /\ last.op = "insert" /\ last.err = "PermissionError"
    /\ ~Has(vectors, last.id) /\ last.how = "len ok"

\* C19: a search with top_k zero or negative fails with the validation
\* error of the result count and returns no results, whatever the database
\* holds.
C19_TopKValidated ==
    (~request.pending /\ last.op = "search" /\ request.top_k <= 0)
    => /\ last.err = "ValueError: top_k must be positive"
       /\ last.out = <<>>

\* C20: insert, get and delete called with the empty string as identifier
\* fail with the validation error of the identifier and change nothing; no
\* record is ever stored under the empty identifier; a non-empty identifier
\* is never refused as an identifier.
C20_IdValidated ==
    /\ [](~Has(vectors, "") /\ ~Has(metadata, ""))
    /\ [][(last'.op \in {"insert", "get", "delete"})
          => IF last'.id = ""
             THEN /\ last'.err = "ValueError: ID cannot be empty"
                  /\ UNCHANGED storage
             ELSE last'.err # "ValueError: ID cannot be empty"]_vars

\* C21: writing into the vector or the metadata object that was passed to
\* insert, or that get returned, after the call has returned, changes no
\* stored record (hence nothing a later get, search or save works from).
C21_NoAliasing ==
    [][last'.op = "mutate" => UNCHANGED <<vectors, metadata>>]_vars

\* C22: for every metric, a search (top_k >= 1) whose query has a length
\* other than the database dimension, on a database where at least one
\* record is compared, fails with the ValueError of the mismatch and returns
\* no result.
C22_QueryDimension ==
    (/\ ~request.pending /\ last.op = "search" /\ request.top_k >= 1
     /\ Len(request.query) # dimension
     /\ Kept(vectors, metadata, request.filter) # <<>>)
    => /\ last.err = "ValueError"
       /\ last.out = <<>>

\* C23: a VectorStore saved by write_vectors (close) and read back by
\* read_vectors (open) has, for every identifier, the metadata it had
\* before the save: None stays None, {} stays {}, a non-empty dict is the
\* same dict, under the identifier it was written for.
C23_MetadataRoundTrip ==
    (/\ impl = "api" /\ last.op = "open" /\ last.how = "loaded"
     /\ snapshot.valid)
    => /\ KeySet(metadata) = KeySet(snapshot.metadata)
       /\ \A id \in KeySet(snapshot.metadata) :
              Get(metadata, id) = Get(snapshot.metadata, id)

\* C24: in every state of an open VectorStore the identifier index lists
\* exactly the stored identifiers, the i-th of them (in the order of the
\* index) at position i - 1, and next_pos is their number.
C24_Contiguous ==
    (impl = "api" /\ opened)
    => /\ KeySet(id_mapping) = KeySet(vectors)
       /\ Len(id_mapping) = Len(vectors)
       /\ \A i \in 1..Len(id_mapping) : id_mapping[i].v = i - 1
       /\ next_pos = Len(vectors)

\* search on the open instance, by the variant in use
SearchOf(q, k, f) ==
    IF impl = "db" THEN DbSearchResult(q, k, f) ELSE ApiSearchResult(q, k, f)

\* The place of an identifier in the vector map, whose order is that of
\* the inserts.
Place(id) == CHOOSE i \in 1..Len(vectors) : vectors[i].k = id

\* Both variants compute a search result from the metric, the query, top_k
\* and the records the scan keeps, in the order of the scan.
SameScans ==
    /\ vectors = snapshot.vectors
    /\ \A f \in Filters :
           Kept(vectors, metadata, f) = Kept(snapshot.vectors, snapshot.metadata, f)

C26_ClosedIsTerminal ==
    [][(/\ last.op = "close" /\ last.err = "none"
        /\ last'.op \in {"insert", "delete"})
       => UNCHANGED <<vectors, metadata, file>>]_vars

\* get of the variant in use
GetOf(id) ==
    IF impl = "db" THEN GetResult(vectors, metadata, id) ELSE StoreGetResult(id)

\* the identifiers a search without predicate scans
Searchable == {Kept(vectors, metadata, "none")[i].k :
                   i \in 1..Len(Kept(vectors, metadata, "none"))}

\* the maps of an open instance have one key set, and get succeeds on it
KeySetsAgree ==
    opened
    => /\ KeySet(vectors) = KeySet(metadata)
       /\ impl = "api" => KeySet(id_mapping) = KeySet(vectors)
       /\ \A id \in Ids : (GetOf(id).err = "none") <=> (id \in Searchable)
       /\ Len(vectors) = Cardinality(KeySet(vectors))

\* the number of records follows the calls: a creation starts at none, an
\* insert that returns adds one, a delete that returns removes one, a call
\* that raises leaves it, and a load gives the number the last close saved
LenFollowsCalls ==
    /\ (last'.op = "open" /\ last'.err = "none" /\ last'.how = "created")
       => Len(vectors') = 0
    /\ (last'.op = "open" /\ last'.err = "none" /\ last'.how = "loaded"
        /\ snapshot.valid)
       => Len(vectors') = Len(snapshot.vectors)
    /\ (last'.op = "insert" /\ last'.err = "none")
       => Len(vectors') = Len(vectors) + 1
    /\ (last'.op = "delete" /\ last'.err = "none")
       => Len(vectors') = Len(vectors) - 1
    /\ (last'.op \in {"insert", "delete"} /\ last'.err # "none")
       => Len(vectors') = Len(vectors)

\* C27: in every reachable state the vector map, the metadata map and (in
\* VectorStore) the identifier index have the same key set, get succeeds for
\* exactly the identifiers a search can return, and len() is the size of
\* that set: the successful inserts minus the successful deletes since
\* creation.
C27_KeySetConsistency == []KeySetsAgree /\ [][LenFollowsCalls]_vars

\* a call that saves has returned: insert, delete or close of an instance
\* that is not read-only
Saved ==
    /\ opened /\ ~read_only
    /\ last.op \in {"insert", "delete", "close"} /\ last.err = "none"

\* C28: after a save the header of the file says the dimension and the
\* metric of the instance and the number of its records, whatever the file
\* was when the save began.
C28_HeaderFromMemory ==
    Saved
    => /\ HeaderReadable(file)
       /\ file.dimension = dimension
       /\ FileMetric(file) = distance_metric
       /\ file.count = Len(vectors)

\* C29: an open that fails (no dimension for a missing or empty file, a
\* dimension of a wrong type or negative, a metric name that is not
\* supported) leaves the path as it was: no file is created, truncated or
\* overwritten.
C29_FailedOpenNoEffect ==
    [][(last'.op = "open" /\ last'.err # "none") => file' = file]_vars

\* What an open of the file would load.
FileRecords == IF impl = "db" THEN DbLoad(file) ELSE StoreLoad(file)

=============================================================================
